---- MODULE Spec2Model ----
(***************************************************************************)
(* Model of the seller-apis repository: seller.py (Ozon) and market.py     *)
(* (Yandex.Market).  The reconciliation of the remnants feed against a     *)
(* marketplace's offer ids, the normalizers, the batcher, the catalog      *)
(* pagination and the two main() runs.                                     *)
(*                                                                         *)
(* Python values.  A spreadsheet cell is a str or an int; a str is a       *)
(* sequence of one-character strings, so that str(), int(), split() and    *)
(* re.sub() are computed character by character.                           *)
(***************************************************************************)
EXTENDS Integers, Sequences, FiniteSets, TLC

VARIABLES
  pc,              \* position of the running program / call
  raw,             \* the cell handed to a normalizer
  ret,             \* the outcome of the last call: a return value or a raise
  lst,             \* divide(): the list
  n,               \* divide(): the chunk size
  watch_remnants,  \* the feed: a list of records Код / Количество / Цена
  offer_ids,       \* the caller's list of offer ids
  known,           \* history: the offer ids as fetched, before any call
  returns,         \* history: the outcomes of the reconciliation calls made
  program,         \* which module runs: "seller" or "market"
  served,          \* the catalog as the listing collaborator serves it
  cursor,          \* get_offer_ids: last_id (seller) / page (market)
  product_list,    \* get_offer_ids: the items accumulated so far
  requests,        \* history: the cursors requested, in order
  target,          \* main(): index of the campaign being synchronized
  stocks,          \* main(): the stock-decision list
  prices,          \* main(): the price-decision list
  pending,         \* main(): list(divide(...)) still to be submitted
  calls,           \* history: the collaborator calls made, in order
  fetched          \* history: the offer ids get_offer_ids returned, per target

vars == <<pc, raw, ret, lst, n, watch_remnants, offer_ids, known, returns,
          program, served, cursor, product_list, requests, target, stocks,
          prices, pending, calls, fetched>>

normVars   == <<raw, ret>>
divideVars == <<lst, n>>
reconVars  == <<watch_remnants, offer_ids, known, returns>>
pagingVars == <<served, cursor, product_list, requests>>
mainVars   == <<target, stocks, prices, pending, calls, fetched>>

-----------------------------------------------------------------------------
(* Bounds of the model *)
MaxStrLen   == 4    \* longest string handed to a normalizer
MaxInt      == 2    \* largest int cell handed to a normalizer
MaxLen      == 4    \* longest list handed to divide()
MaxSize     == 3    \* largest chunk size handed to divide()
MaxRemnants == 2    \* longest feed handed to a reconciliation call
MaxIds      == 2    \* longest offer-id list handed to a reconciliation call
MaxCalls    == 2    \* reconciliation calls made in a row on the same lists
MaxPages    == 2    \* pages the listing collaborator serves a catalog in
MaxTotal    == 3    \* largest "total" the Ozon listing reports
MaxRequests == 3    \* page requests followed within one get_offer_ids call
MaxFeed     == 2    \* longest feed download_stock returns to main()

\* Batch sizes of main().  The source's literals (100 and 900 in seller.py,
\* 2000 in market.py) are scaled down so that the short lists of the model
\* split into several batches.
SellerStockBatch == 1   \* seller.py line 359: 100
SellerPriceBatch == 2   \* seller.py line 363: 900
MarketStockBatch == 1   \* market.py lines 302, 311: 2000

-----------------------------------------------------------------------------
(* Outcomes of a call *)
Ok(v)      == [ok |-> TRUE, v |-> v]
Raise(exc) == [ok |-> FALSE, exc |-> exc]

(* Python cells *)
\* (one record shape for both, so that cells of both kinds can share a list)
PStr(s) == [t |-> "str", s |-> s, i |-> 0]
PInt(i) == [t |-> "int", s |-> <<>>, i |-> i]

Digits == <<"0", "1", "2", "3", "4", "5", "6", "7", "8", "9">>
IsDigit(c) == \E d \in 1..10 : Digits[d] = c
DigitVal(c) == (CHOOSE d \in 1..10 : Digits[d] = c) - 1
IsSpace(c) == c = " "

RECURSIVE NatToStr(_)
NatToStr(i) ==
  IF i < 10 THEN <<Digits[i + 1]>>
  ELSE NatToStr(i \div 10) \o <<Digits[(i % 10) + 1]>>

\* str(x)
PyStr(x) ==
  IF x.t = "str" THEN x.s
  ELSE IF x.i < 0 THEN <<"-">> \o NatToStr(-x.i) ELSE NatToStr(x.i)

RECURSIVE LStrip(_)
LStrip(s) == IF s # <<>> /\ IsSpace(Head(s)) THEN LStrip(Tail(s)) ELSE s

RECURSIVE RStrip(_)
RStrip(s) ==
  IF s # <<>> /\ IsSpace(s[Len(s)]) THEN RStrip(SubSeq(s, 1, Len(s) - 1)) ELSE s

Strip(s) == RStrip(LStrip(s))

\* The digits-with-underscores part of an integer literal: digits, with
\* single underscores allowed between two digits.
IsIntBody(b) ==
  /\ b # <<>>
  /\ IsDigit(b[1]) /\ IsDigit(b[Len(b)])
  /\ \A i \in 1..Len(b) : IsDigit(b[i]) \/ b[i] = "_"
  /\ \A i \in 1..(Len(b) - 1) : ~(b[i] = "_" /\ b[i + 1] = "_")

RECURSIVE BodyValue(_, _)
BodyValue(b, acc) ==
  IF b = <<>> THEN acc
  ELSE IF Head(b) = "_" THEN BodyValue(Tail(b), acc)
  ELSE BodyValue(Tail(b), 10 * acc + DigitVal(Head(b)))

\* int(s) for a str s: surrounding whitespace is ignored, one sign is allowed
PyIntOfStr(s) ==
  LET t    == Strip(s)
      sgn  == t # <<>> /\ Head(t) \in {"+", "-"}
      body == IF sgn THEN Tail(t) ELSE t
  IN  IF IsIntBody(body)
      THEN Ok(IF sgn /\ Head(t) = "-" THEN -BodyValue(body, 0)
              ELSE BodyValue(body, 0))
      ELSE Raise("ValueError")

\* int(x)
PyInt(x) == IF x.t = "int" THEN Ok(x.i) ELSE PyIntOfStr(x.s)

-----------------------------------------------------------------------------
(* The quantity rules of create_stocks *)

\* mutant of StockOf: the test for "1" is missing
StockOfNoOneRule(q) ==
  LET count == PyStr(q)
  IN  IF count = <<">", "1", "0">> THEN Ok(100) ELSE PyInt(q)

\* lines 197-203 (seller.py), 164-170 (market.py)
StockOf(q) ==
  LET count == PyStr(q)
  IN  IF count = <<">", "1", "0">> THEN Ok(100)
      ELSE IF count = <<"1">> THEN Ok(0)
      ELSE PyInt(q)

-----------------------------------------------------------------------------
(* price_conversion *)

\* price.split(".")[0]
RECURSIVE BeforeDot(_)
BeforeDot(s) ==
  IF s = <<>> \/ Head(s) = "." THEN <<>>
  ELSE <<Head(s)>> \o BeforeDot(Tail(s))

\* re.sub("[^0-9]", "", s)
RECURSIVE OnlyDigits(_)
OnlyDigits(s) ==
  IF s = <<>> THEN <<>>
  ELSE IF IsDigit(Head(s)) THEN <<Head(s)>> \o OnlyDigits(Tail(s))
  ELSE OnlyDigits(Tail(s))

price_conversion(price) ==
  IF price.t # "str" THEN Raise("AttributeError")
  ELSE Ok(OnlyDigits(BeforeDot(price.s)))

\* market.py: int(price_conversion(...))
MarketPriceValue(price) ==
  LET p == price_conversion(price)
  IN  IF p.ok THEN PyIntOfStr(p.v) ELSE p

-----------------------------------------------------------------------------
(* List operations *)

\* x in l
Contains(l, x) == \E i \in 1..Len(l) : l[i] = x

\* l.remove(x): drops the first occurrence (x is in l at every call site)
ListRemove(l, x) ==
  LET i == CHOOSE k \in 1..Len(l) : l[k] = x /\ \A j \in 1..(k - 1) : l[j] # x
  IN  SubSeq(l, 1, i - 1) \o SubSeq(l, i + 1, Len(l))

Min(a, b) == IF a < b THEN a ELSE b

\* mutant of Slice: the slice takes one element too many
SliceInclusive(l, a, b) == SubSeq(l, a + 1, Min(b + 1, Len(l)))

\* l[a:b] for 0 <= a <= b
Slice(l, a, b) == SubSeq(l, a + 1, Min(b, Len(l)))

\* list(range(start, stop, step)) for step >= 1
RECURSIVE Range(_, _, _)
Range(start, stop, step) ==
  IF start >= stop THEN <<>>
  ELSE <<start>> \o Range(start + step, stop, step)

\* list(divide(l, k))
Divide(l, k) ==
  LET starts == Range(0, Len(l), k)
  IN  [j \in 1..Len(starts) |-> Slice(l, starts[j], starts[j] + k)]

-----------------------------------------------------------------------------
(* Reconciliation: seller.py.  A record of the feed is                     *)
(* [Code, Quantity, Price] for the columns "Код", "Количество", "Цена".    *)
(* Each operator returns the call's outcome and the caller's offer_ids     *)
(* list as the call leaves it.                                             *)

SellerStock(id, stock) == [offer_id |-> id, stock |-> stock]

\* line 196
SellerStockMatches(watch, ids) == Contains(ids, PyStr(watch.Code))

\* mutant of SellerConsume: the matched id is not removed
SellerConsumeNothing(ids, watch) == ids

\* line 205
SellerConsume(ids, watch) == ListRemove(ids, PyStr(watch.Code))

\* lines 195-205
RECURSIVE SellerStocksLoop(_, _, _)
SellerStocksLoop(remnants, ids, acc) ==
  IF remnants = <<>> THEN [out |-> Ok(acc), ids |-> ids]
  ELSE LET watch == Head(remnants)
       IN  IF SellerStockMatches(watch, ids)
           THEN LET stock == StockOf(watch.Quantity)
                IN  IF stock.ok
                    THEN SellerStocksLoop(
                           Tail(remnants),
                           SellerConsume(ids, watch),
                           Append(acc, SellerStock(PyStr(watch.Code), stock.v)))
                    ELSE [out |-> stock, ids |-> ids]
           ELSE SellerStocksLoop(Tail(remnants), ids, acc)

\* mutant of SellerMissing: the leftover ids are walked from the end
SellerMissingReversed(ids) ==
  [i \in 1..Len(ids) |-> SellerStock(ids[Len(ids) + 1 - i], 0)]

\* lines 207-208
SellerMissing(ids) == [i \in 1..Len(ids) |-> SellerStock(ids[i], 0)]

seller_create_stocks(remnants, ids) ==
  LET pass == SellerStocksLoop(remnants, ids, <<>>)
  IN  IF pass.out.ok
      THEN [out |-> Ok(pass.out.v \o SellerMissing(pass.ids)), ids |-> pass.ids]
      ELSE pass

SellerPrice(id, price) == [offer_id |-> id, price |-> price]

\* mutant of SellerPriceMatches: every record of the feed is taken
SellerPriceMatchesAlways(watch, ids) == TRUE

\* line 236
SellerPriceMatches(watch, ids) == Contains(ids, PyStr(watch.Code))

\* lines 235-244
RECURSIVE SellerPricesLoop(_, _, _)
SellerPricesLoop(remnants, ids, acc) ==
  IF remnants = <<>> THEN [out |-> Ok(acc), ids |-> ids]
  ELSE LET watch == Head(remnants)
       IN  IF SellerPriceMatches(watch, ids)
           THEN LET price == price_conversion(watch.Price)
                IN  IF price.ok
                    THEN SellerPricesLoop(
                           Tail(remnants), ids,
                           Append(acc, SellerPrice(PyStr(watch.Code), price.v)))
                    ELSE [out |-> price, ids |-> ids]
           ELSE SellerPricesLoop(Tail(remnants), ids, acc)

seller_create_prices(remnants, ids) == SellerPricesLoop(remnants, ids, <<>>)

-----------------------------------------------------------------------------
(* Reconciliation: market.py.  "type" and "updatedAt" of a stock item are  *)
(* the same for every decision of a call and are left out.                 *)

MarketStock(id, stock, warehouse_id) ==
  [sku |-> id, warehouseId |-> warehouse_id, count |-> stock]

\* line 163
MarketStockMatches(watch, ids) == Contains(ids, PyStr(watch.Code))

\* mutant of MarketConsume: the matched id stays in the working list
MarketConsumeNothing(ids, watch) == ids

\* line 184
MarketConsume(ids, watch) == ListRemove(ids, PyStr(watch.Code))

\* lines 162-184
RECURSIVE MarketStocksLoop(_, _, _, _)
MarketStocksLoop(remnants, ids, warehouse_id, acc) ==
  IF remnants = <<>> THEN [out |-> Ok(acc), ids |-> ids]
  ELSE LET watch == Head(remnants)
       IN  IF MarketStockMatches(watch, ids)
           THEN LET stock == StockOf(watch.Quantity)
                IN  IF stock.ok
                    THEN MarketStocksLoop(
                           Tail(remnants),
                           MarketConsume(ids, watch),
                           warehouse_id,
                           Append(acc, MarketStock(PyStr(watch.Code), stock.v,
                                                   warehouse_id)))
                    ELSE [out |-> stock, ids |-> ids]
           ELSE MarketStocksLoop(Tail(remnants), ids, warehouse_id, acc)

\* lines 186-199
MarketMissing(ids, warehouse_id) ==
  [i \in 1..Len(ids) |-> MarketStock(ids[i], 0, warehouse_id)]

market_create_stocks(remnants, ids, warehouse_id) ==
  LET pass == MarketStocksLoop(remnants, ids, warehouse_id, <<>>)
  IN  IF pass.out.ok
      THEN [out |-> Ok(pass.out.v \o MarketMissing(pass.ids, warehouse_id)),
            ids |-> pass.ids]
      ELSE pass

MarketPrice(id, value) == [id |-> id, value |-> value]

\* line 219
MarketPriceMatches(watch, ids) == Contains(ids, PyStr(watch.Code))

\* lines 218-232
RECURSIVE MarketPricesLoop(_, _, _)
MarketPricesLoop(remnants, ids, acc) ==
  IF remnants = <<>> THEN [out |-> Ok(acc), ids |-> ids]
  ELSE LET watch == Head(remnants)
       IN  IF MarketPriceMatches(watch, ids)
           THEN LET value == MarketPriceValue(watch.Price)
                IN  IF value.ok
                    THEN MarketPricesLoop(
                           Tail(remnants), ids,
                           Append(acc, MarketPrice(PyStr(watch.Code), value.v)))
                    ELSE [out |-> value, ids |-> ids]
           ELSE MarketPricesLoop(Tail(remnants), ids, acc)

market_create_prices(remnants, ids) == MarketPricesLoop(remnants, ids, <<>>)

-----------------------------------------------------------------------------
(* Values of the variables a specification does not use *)
NoRet == [fn |-> "none"]

NormIdle   == raw = PInt(0) /\ ret = NoRet
DivideIdle == lst = <<>> /\ n = 1
ReconIdle  == watch_remnants = <<>> /\ offer_ids = <<>> /\ known = <<>>
              /\ returns = <<>>
PagingIdle == served = <<>> /\ cursor = <<>> /\ product_list = <<>>
              /\ requests = <<>>
MainIdle   == target = 0 /\ stocks = <<>> /\ prices = <<>> /\ pending = <<>>
              /\ calls = <<>> /\ fetched = <<>>

\* every string of at most k characters of alphabet A
Strings(A, k) == UNION {[1..j -> A] : j \in 0..k}

-----------------------------------------------------------------------------
(* The normalizers, as the reconciliation calls apply them: a feed of one  *)
(* record whose code is a known offer id and whose quantity or price cell  *)
(* is drawn from every short string and small int.                         *)

Alphabet == {"0", "1", "7", ">", " ", ".", "-", "a"}
Cells == {PStr(s) : s \in Strings(Alphabet, MaxStrLen)}
           \cup {PInt(i) : i \in 0..MaxInt}

TheId == <<"1">>
OneQuantity(cell) == <<[Code |-> PStr(TheId), Quantity |-> cell,
                        Price |-> PStr(<<"5">>)]>>
OnePrice(cell)    == <<[Code |-> PStr(TheId), Quantity |-> PStr(<<"5">>),
                        Price |-> cell]>>

InitNorm ==
  /\ pc = "call"
  /\ program = "none"
  /\ raw \in Cells
  /\ ret = NoRet
  /\ DivideIdle /\ ReconIdle /\ PagingIdle /\ MainIdle

Returned(fn, r) ==
  /\ pc = "call"
  /\ pc' = "returned"
  /\ ret' = [fn |-> fn, out |-> r.out]
  /\ UNCHANGED <<raw, divideVars, reconVars, program, pagingVars, mainVars>>

SellerStocksOfCell ==
  Returned("seller.create_stocks",
           seller_create_stocks(OneQuantity(raw), <<TheId>>))

MarketStocksOfCell ==
  Returned("market.create_stocks",
           market_create_stocks(OneQuantity(raw), <<TheId>>, "w"))

SellerPricesOfCell ==
  Returned("seller.create_prices",
           seller_create_prices(OnePrice(raw), <<TheId>>))

MarketPricesOfCell ==
  Returned("market.create_prices",
           market_create_prices(OnePrice(raw), <<TheId>>))

NextNorm ==
  \/ SellerStocksOfCell
  \/ MarketStocksOfCell
  \/ SellerPricesOfCell
  \/ MarketPricesOfCell

SpecNorm == InitNorm /\ [][NextNorm]_vars

-----------------------------------------------------------------------------
(* divide() applied to every short list and small chunk size *)

Items == {"a", "b", "c"}

InitDivide ==
  /\ pc = "call"
  /\ program = "none"
  /\ lst \in Strings(Items, MaxLen)
  /\ n \in 1..MaxSize
  /\ NormIdle /\ ReconIdle /\ PagingIdle /\ MainIdle

CallDivide ==
  /\ pc = "call"
  /\ pc' = "returned"
  /\ ret' = [fn |-> "divide", out |-> Ok(Divide(lst, n))]
  /\ UNCHANGED <<raw, divideVars, reconVars, program, pagingVars, mainVars>>

NextDivide == CallDivide

SpecDivide == InitDivide /\ [][NextDivide]_vars

-----------------------------------------------------------------------------
(* The reconciliation calls, made in a row on the caller's feed and        *)
(* offer-id list.  The feed is drawn from records that cover: a repeated   *)
(* code, an int code cell, a code unknown to the marketplace, each         *)
(* quantity rule, quantities and prices that do not parse.                 *)

Rec(code, quantity, price) ==
  [Code |-> code, Quantity |-> quantity, Price |-> price]

FeedRecords ==
  { Rec(PStr(<<"1">>), PStr(<<">", "1", "0">>), PStr(<<"5", "'", "0", ".", "9">>)),
    Rec(PStr(<<"1">>), PStr(<<"7">>),           PStr(<<"7">>)),
    Rec(PInt(2),       PInt(1),                 PStr(<<"1", ".", "5">>)),
    Rec(PStr(<<"2">>), PStr(<<" ", "1">>),      PStr(<<"a">>)),
    Rec(PStr(<<"9">>), PStr(<<"a">>),           PStr(<<>>)),
    Rec(PStr(<<"3">>), PStr(<<"a">>),           PInt(5)),
    Rec(PStr(<<"3">>), PStr(<<"5">>),           PStr(<<"1", "0">>)) }

OfferIdPool == {<<"1">>, <<"2">>, <<"3">>}

\* the lists of at most k distinct ids of S
IdLists(S, k) ==
  {l \in Strings(S, k) : \A i, j \in 1..Len(l) : l[i] = l[j] => i = j}

InitRecon ==
  /\ pc = "call"
  /\ program \in {"seller", "market"}
  /\ watch_remnants \in Strings(FeedRecords, MaxRemnants)
  /\ offer_ids \in IdLists(OfferIdPool, MaxIds)
  /\ known = offer_ids
  /\ returns = <<>>
  /\ NormIdle /\ DivideIdle /\ PagingIdle /\ MainIdle

Called(fn, r) ==
  /\ pc = "call"
  /\ Len(returns) < MaxCalls
  /\ returns' = Append(returns, [fn |-> fn, before |-> offer_ids,
                                 after |-> r.ids, out |-> r.out])
  /\ offer_ids' = r.ids
  /\ UNCHANGED <<pc, normVars, divideVars, watch_remnants, known, program,
                 pagingVars, mainVars>>

CallSellerCreateStocks ==
  /\ program = "seller"
  /\ Called("seller.create_stocks",
            seller_create_stocks(watch_remnants, offer_ids))

CallSellerCreatePrices ==
  /\ program = "seller"
  /\ Called("seller.create_prices",
            seller_create_prices(watch_remnants, offer_ids))

CallMarketCreateStocks ==
  /\ program = "market"
  /\ Called("market.create_stocks",
            market_create_stocks(watch_remnants, offer_ids, "w"))

CallMarketCreatePrices ==
  /\ program = "market"
  /\ Called("market.create_prices",
            market_create_prices(watch_remnants, offer_ids))

NextRecon ==
  \/ CallSellerCreateStocks
  \/ CallSellerCreatePrices
  \/ CallMarketCreateStocks
  \/ CallMarketCreatePrices

SpecRecon == InitRecon /\ [][NextRecon]_vars

-----------------------------------------------------------------------------
(* The listing collaborator.  A catalog is served as a sequence of pages;   *)
(* the cursor returned with page k names page k + 1 and is empty with the   *)
(* last page; the empty cursor names the first page.  The Ozon listing      *)
(* also reports a count, "total", with every page.                          *)

\* the value of a string of decimal digits, from the units upwards
RECURSIVE DecimalValue(_)
DecimalValue(ds) ==
  IF ds = <<>> THEN 0
  ELSE DigitVal(ds[Len(ds)]) + 10 * DecimalValue(SubSeq(ds, 1, Len(ds) - 1))

Token(k) == NatToStr(k)
PageIndex(c) == IF c = <<>> THEN 1 ELSE DecimalValue(c) + 1
NextCursor(catalog, k) == IF k < Len(catalog.pages) THEN Token(k) ELSE <<>>

\* seller.py get_product_list: response_object.get("result")
SellerResponse(catalog, last_id) ==
  LET k    == PageIndex(last_id)
      page == catalog.pages[k]
  IN  [items   |-> [i \in 1..Len(page) |-> [offer_id |-> page[i]]],
       total   |-> catalog.total,
       last_id |-> NextCursor(catalog, k)]

\* market.py get_product_list: response_object.get("result")
MarketResponse(catalog, page_token) ==
  LET k    == PageIndex(page_token)
      page == catalog.pages[k]
  IN  [offerMappingEntries |->
         [i \in 1..Len(page) |-> [offer |-> [shopSku |-> page[i]]]],
       paging |-> [nextPageToken |-> NextCursor(catalog, k)]]

\* seller.py line 72
SellerLoopExits(total, products) == total = Len(products)

\* market.py line 135: not page
MarketLoopExits(page_token) == page_token = <<>>

\* seller.py lines 74-77
SellerOfferIds(products) == [i \in 1..Len(products) |-> products[i].offer_id]

\* market.py lines 137-140
MarketOfferIds(products) ==
  [i \in 1..Len(products) |-> products[i].offer.shopSku]

-----------------------------------------------------------------------------
(* main() of seller.py and of market.py.  Every collaborator call either   *)
(* returns or raises; a raise inside the try block ends main() in one of   *)
(* the except clauses.  watch_remnants holds from the start the feed that  *)
(* download_stock() returns; nothing reads it before that call.            *)

CatalogIds == {<<"1">>, <<"2">>}

\* the ways to cut list l into k consecutive pages, empty pages included
RECURSIVE Cuts(_, _)
Cuts(l, k) ==
  IF k = 1 THEN {<<l>>}
  ELSE UNION { {<<SubSeq(l, 1, j)>> \o rest :
                  rest \in Cuts(SubSeq(l, j + 1, Len(l)), k - 1)} :
               j \in 0..Len(l) }

PageSeqs ==
  UNION { Cuts(l, k) : l \in IdLists(CatalogIds, Cardinality(CatalogIds)),
                       k \in 1..MaxPages }

SellerCatalogs == {[pages |-> ps, total |-> t] : ps \in PageSeqs,
                                                  t \in 0..MaxTotal}
\* the market listing reports no total
MarketCatalogs == {[pages |-> ps, total |-> 0] : ps \in PageSeqs}

MainRecords ==
  { Rec(PStr(<<"1">>), PStr(<<">", "1", "0">>), PStr(<<"5", "'", "0", ".", "9">>)),
    Rec(PInt(2),       PStr(<<"7">>),           PStr(<<"1", ".", "5">>)),
    Rec(PStr(<<"2">>), PStr(<<"a">>),           PStr(<<"7">>)),
    Rec(PStr(<<"9">>), PStr(<<"3">>),           PStr(<<"a">>)) }

Warehouse(t) == IF t = 1 THEN "warehouse_fbs_id" ELSE "warehouse_dbs_id"

Init ==
  /\ program \in {"seller", "market"}
  /\ pc = (IF program = "seller" THEN "get_offer_ids" ELSE "download_stock")
  /\ served \in (IF program = "seller" THEN [1..1 -> SellerCatalogs]
                 ELSE [1..2 -> MarketCatalogs])
  /\ watch_remnants \in Strings(MainRecords, MaxFeed)
  /\ target = 1
  /\ cursor = <<>> /\ product_list = <<>> /\ requests = <<>>
  /\ offer_ids = <<>> /\ known = <<>> /\ returns = <<>>
  /\ stocks = <<>> /\ prices = <<>> /\ pending = <<>>
  /\ calls = <<>> /\ fetched = <<>>
  /\ NormIdle /\ DivideIdle

Call(kind, t, arg, ok) == [kind |-> kind, target |-> t, arg |-> arg, ok |-> ok]

Entry(fn, r) == [fn |-> fn, before |-> offer_ids, after |-> r.ids, out |-> r.out]

\* mutant of SellerExcept: the failed step is entered again
SellerExceptRetry(at) == at

\* seller.py lines 365-370: the except clauses print and main() returns
SellerExcept(at) == "stopped"

\* market.py lines 315-320; download_stock() (line 296) is outside the try
MarketExcept(at) == IF at = "download_stock" THEN "crashed" ELSE "stopped"

\* seller.py lines 65-77, one pass of the while loop
SellerGetProductList ==
  /\ program = "seller" /\ pc = "get_offer_ids"
  /\ Len(requests) < MaxRequests
  /\ requests' = Append(requests, cursor)
  /\ \E ok \in BOOLEAN :
       /\ calls' = Append(calls, Call("list", target, cursor, ok))
       /\ IF ok
          THEN LET some_prod == SellerResponse(served[target], cursor)
                   products  == product_list \o some_prod.items
               IN  /\ product_list' = products
                   /\ cursor' = some_prod.last_id
                   /\ IF SellerLoopExits(some_prod.total, products)
                      THEN /\ offer_ids' = SellerOfferIds(products)
                           /\ fetched' = Append(fetched, SellerOfferIds(products))
                           /\ pc' = "download_stock"
                      ELSE UNCHANGED <<offer_ids, fetched, pc>>
          ELSE /\ pc' = SellerExcept(pc)
               /\ UNCHANGED <<product_list, cursor, offer_ids, fetched>>
  /\ UNCHANGED <<normVars, divideVars, watch_remnants, known, returns,
                 program, served, target, stocks, prices, pending>>

\* market.py lines 129-140, one pass of the while loop
MarketGetProductList ==
  /\ program = "market" /\ pc = "get_offer_ids"
  /\ Len(requests) < MaxRequests
  /\ requests' = Append(requests, cursor)
  /\ \E ok \in BOOLEAN :
       /\ calls' = Append(calls, Call("list", target, cursor, ok))
       /\ IF ok
          THEN LET some_prod == MarketResponse(served[target], cursor)
                   products  == product_list \o some_prod.offerMappingEntries
                   page      == some_prod.paging.nextPageToken
               IN  /\ product_list' = products
                   /\ cursor' = page
                   /\ IF MarketLoopExits(page)
                      THEN /\ offer_ids' = MarketOfferIds(products)
                           /\ fetched' = Append(fetched, MarketOfferIds(products))
                           /\ pc' = "create_stocks"
                      ELSE UNCHANGED <<offer_ids, fetched, pc>>
          ELSE /\ pc' = MarketExcept(pc)
               /\ UNCHANGED <<product_list, cursor, offer_ids, fetched>>
  /\ UNCHANGED <<normVars, divideVars, watch_remnants, known, returns,
                 program, served, target, stocks, prices, pending>>

\* seller.py line 356 / market.py line 296
DownloadStock ==
  /\ pc = "download_stock"
  /\ \E ok \in BOOLEAN :
       /\ calls' = Append(calls, Call("download", 0, <<>>, ok))
       /\ pc' = IF program = "seller"
                THEN (IF ok THEN "create_stocks" ELSE SellerExcept(pc))
                ELSE (IF ok THEN "get_offer_ids" ELSE MarketExcept(pc))
  /\ UNCHANGED <<normVars, divideVars, reconVars, program, pagingVars,
                 target, stocks, prices, pending, fetched>>

\* seller.py lines 362-363: create_prices on the same offer_ids list, then
\* list(divide(prices, 900)); the position main() is at afterwards
SellerPricesStep(ids) ==
  LET r == seller_create_prices(watch_remnants, ids)
  IN  IF r.out.ok
      THEN [entry |-> Entry("seller.create_prices", r), prices |-> r.out.v,
            pending |-> Divide(r.out.v, SellerPriceBatch),
            pc |-> IF r.out.v = <<>> THEN "done" ELSE "update_price"]
      ELSE [entry |-> Entry("seller.create_prices", r), prices |-> prices,
            pending |-> <<>>, pc |-> SellerExcept("create_prices")]

\* seller.py lines 358-359: create_stocks, then list(divide(stocks, 100))
SellerCreateStocks ==
  /\ program = "seller" /\ pc = "create_stocks"
  /\ LET r == seller_create_stocks(watch_remnants, offer_ids)
     IN  /\ offer_ids' = r.ids
         /\ returns' = Append(returns, Entry("seller.create_stocks", r))
         /\ IF r.out.ok
            THEN /\ stocks' = r.out.v
                 /\ pending' = Divide(r.out.v, SellerStockBatch)
                 /\ pc' = IF r.out.v = <<>> THEN "create_prices"
                          ELSE "update_stocks"
            ELSE /\ pc' = SellerExcept(pc)
                 /\ UNCHANGED <<stocks, pending>>
  /\ UNCHANGED <<normVars, divideVars, watch_remnants, known, program,
                 pagingVars, target, prices, calls, fetched>>

\* seller.py lines 359-360, one pass of the for loop
SellerUpdateStocks ==
  /\ program = "seller" /\ pc = "update_stocks"
  /\ \E ok \in BOOLEAN :
       /\ calls' = Append(calls, Call("stocks", target, Head(pending), ok))
       /\ IF ok
          THEN /\ pending' = Tail(pending)
               /\ pc' = IF Tail(pending) = <<>> THEN "create_prices" ELSE pc
          ELSE /\ pc' = SellerExcept(pc)
               /\ UNCHANGED pending
  /\ UNCHANGED <<normVars, divideVars, reconVars, program, pagingVars,
                 target, stocks, prices, fetched>>

\* seller.py line 362-363
SellerCreatePrices ==
  /\ program = "seller" /\ pc = "create_prices"
  /\ LET step == SellerPricesStep(offer_ids)
     IN  /\ returns' = Append(returns, step.entry)
         /\ prices' = step.prices
         /\ pending' = step.pending
         /\ pc' = step.pc
  /\ UNCHANGED <<normVars, divideVars, watch_remnants, offer_ids, known,
                 program, pagingVars, target, stocks, calls, fetched>>

\* seller.py lines 363-364, one pass of the for loop
SellerUpdatePrice ==
  /\ program = "seller" /\ pc = "update_price"
  /\ \E ok \in BOOLEAN :
       /\ calls' = Append(calls, Call("prices", target, Head(pending), ok))
       /\ IF ok
          THEN /\ pending' = Tail(pending)
               /\ pc' = IF Tail(pending) = <<>> THEN "done" ELSE pc
          ELSE /\ pc' = SellerExcept(pc)
               /\ UNCHANGED pending
  /\ UNCHANGED <<normVars, divideVars, reconVars, program, pagingVars,
                 target, stocks, prices, fetched>>

\* market.py lines 301-302 (FBS), 310-311 (DBS)
MarketCreateStocks ==
  /\ program = "market" /\ pc = "create_stocks"
  /\ LET r == market_create_stocks(watch_remnants, offer_ids, Warehouse(target))
     IN  /\ offer_ids' = r.ids
         /\ returns' = Append(returns, Entry("market.create_stocks", r))
         /\ IF r.out.ok
            THEN /\ stocks' = r.out.v
                 /\ pending' = Divide(r.out.v, MarketStockBatch)
                 /\ pc' = IF r.out.v = <<>> THEN "upload_prices"
                          ELSE "update_stocks"
            ELSE /\ pc' = MarketExcept(pc)
                 /\ UNCHANGED <<stocks, pending>>
  /\ UNCHANGED <<normVars, divideVars, watch_remnants, known, program,
                 pagingVars, target, prices, calls, fetched>>

\* market.py lines 302-303 (FBS), 311-312 (DBS), one pass of the for loop
MarketUpdateStocks ==
  /\ program = "market" /\ pc = "update_stocks"
  /\ \E ok \in BOOLEAN :
       /\ calls' = Append(calls, Call("stocks", target, Head(pending), ok))
       /\ IF ok
          THEN /\ pending' = Tail(pending)
               /\ pc' = IF Tail(pending) = <<>> THEN "upload_prices" ELSE pc
          ELSE /\ pc' = MarketExcept(pc)
               /\ UNCHANGED pending
  /\ UNCHANGED <<normVars, divideVars, reconVars, program, pagingVars,
                 target, stocks, prices, fetched>>

\* market.py lines 305 (FBS), 314 (DBS): upload_prices is an async def and
\* the call is not awaited; it builds a coroutine object whose body never
\* runs.  After FBS main() goes on to DBS (line 308), after DBS it returns.
MarketUploadPricesNotAwaited ==
  /\ program = "market" /\ pc = "upload_prices"
  /\ IF target = 1
     THEN /\ target' = 2
          /\ pc' = "get_offer_ids"
          /\ cursor' = <<>> /\ product_list' = <<>> /\ requests' = <<>>
     ELSE /\ pc' = "done"
          /\ UNCHANGED <<target, cursor, product_list, requests>>
  /\ UNCHANGED <<normVars, divideVars, reconVars, program, served, stocks,
                 prices, pending, calls, fetched>>

Next ==
  \/ SellerGetProductList
  \/ MarketGetProductList
  \/ DownloadStock
  \/ SellerCreateStocks
  \/ SellerUpdateStocks
  \/ SellerCreatePrices
  \/ SellerUpdatePrice
  \/ MarketCreateStocks
  \/ MarketUpdateStocks
  \/ MarketUploadPricesNotAwaited

Spec == Init /\ [][Next]_vars

-----------------------------------------------------------------------------
(* Reference notions used by the properties *)

RECURSIVE Flatten(_)
Flatten(ss) == IF ss = <<>> THEN <<>> ELSE Head(ss) \o Flatten(Tail(ss))

Unsigned(t) == IF t # <<>> /\ t[1] \in {"+", "-"} THEN Tail(t) ELSE t

\* a text that denotes a base-10 integer: an optional sign and digits,
\* whitespace around it allowed
IsIntegerText(s) ==
  LET body == Unsigned(Strip(s))
  IN  body # <<>> /\ \A j \in 1..Len(body) : IsDigit(body[j])

IntegerValue(s) ==
  LET t == Strip(s)
  IN  IF t[1] = "-" THEN 0 - DecimalValue(Unsigned(t))
      ELSE DecimalValue(Unsigned(t))

\* the digits that occur before the first "."
DigitsBeforeDot(s) ==
  LET dots == {j \in 1..Len(s) : s[j] = "."}
      stop == IF dots = {} THEN Len(s) + 1
              ELSE CHOOSE j \in dots : \A k \in dots : j <= k
      keep == {j \in 1..(stop - 1) : IsDigit(s[j])}
      Nth(k) == CHOOSE j \in keep : Cardinality({m \in keep : m < j}) = k - 1
  IN  [k \in 1..Cardinality(keep) |-> s[Nth(k)]]

StockId(d)    == IF "offer_id" \in DOMAIN d THEN d.offer_id ELSE d.sku
StockCount(d) == IF "offer_id" \in DOMAIN d THEN d.stock ELSE d.count
PriceId(d)    == IF "offer_id" \in DOMAIN d THEN d.offer_id ELSE d.id

StocksFns == {"seller.create_stocks", "market.create_stocks"}
PricesFns == {"seller.create_prices", "market.create_prices"}

\* the call returned the one decision (TheId, count)
OneStock(r, count) ==
  /\ r.out.ok
  /\ Len(r.out.v) = 1
  /\ StockId(r.out.v[1]) = TheId
  /\ StockCount(r.out.v[1]) = count

\* the pass was aborted by a ValueError: no decision list was returned
Aborted(r) == ~r.out.ok /\ r.out.exc = "ValueError"

-----------------------------------------------------------------------------
\* C8: for every list and every size >= 1, the slices of divide(items, size)
\* concatenated in order give items; every slice but the last has exactly
\* size elements, the last has (len mod size) elements, or size when len is
\* a multiple of size; no slice is empty and the empty list gives no slice.
C8_DivideChunks ==
  ret.fn = "divide" =>
    LET cs  == ret.out.v
        len == Len(lst)
    IN  /\ Flatten(cs) = lst
        /\ \A j \in 1..(Len(cs) - 1) : Len(cs[j]) = n
        /\ cs # <<>> =>
             Len(cs[Len(cs)]) = (IF len % n = 0 THEN n ELSE len % n)
        /\ \A j \in 1..Len(cs) : cs[j] # <<>>
        /\ lst = <<>> => cs = <<>>

C8_Witness ==
  /\ ret.fn = "divide"
  /\ lst = <<"a", "b", "c">> /\ n = 2
  /\ ret.out.v = << <<"a", "b">>, <<"c">> >>

C10_PriceNormalizer ==
  (ret.fn \in PricesFns /\ raw.t = "str") =>
    LET ds == DigitsBeforeDot(raw.s)
    IN  IF ds = <<>> THEN ~ret.out.ok
        ELSE /\ ret.out.ok
             /\ Len(ret.out.v) = 1
             /\ PriceId(ret.out.v[1]) = TheId
             /\ IF ret.fn = "seller.create_prices"
                THEN /\ ret.out.v[1].price # <<>>
                     /\ DecimalValue(ret.out.v[1].price) = DecimalValue(ds)
                ELSE ret.out.v[1].value = DecimalValue(ds)

-----------------------------------------------------------------------------
\* how many entries of list l satisfy Id(entry) = id
Occurrences(l, id, Id(_)) == Cardinality({i \in 1..Len(l) : Id(l[i]) = id})

Elements(l) == {l[i] : i \in 1..Len(l)}

\* the codes of the feed, as text, in feed order
Codes(remnants) == [i \in 1..Len(remnants) |-> PyStr(remnants[i].Code)]

C3_Idempotent ==
  /\ \A c \in 1..(Len(returns) - 1) :
       returns[c].fn = returns[c + 1].fn =>
         /\ returns[c].out.ok = returns[c + 1].out.ok
         /\ returns[c].out.ok => returns[c].out.v = returns[c + 1].out.v
  /\ \A c \in 1..Len(returns) : returns[c].after = returns[c].before

-----------------------------------------------------------------------------
(* Properties of main() *)

StockEntries == SelectSeq(returns, LAMBDA e : e.fn \in StocksFns)
PriceEntries == SelectSeq(returns, LAMBDA e : e.fn \in PricesFns)

\* the batches handed to the update collaborator for target t, in call order
Submitted(kind, t) ==
  LET sel == SelectSeq(calls, LAMBDA c : c.kind = kind /\ c.target = t)
  IN  [i \in 1..Len(sel) |-> sel[i].arg]

StockBound == IF program = "seller" THEN SellerStockBatch ELSE MarketStockBatch

\* the price-decision list of target t: the list main() builds (seller.py
\* line 362); in market.py the list upload_prices builds (lines 252-253) from
\* the ids of the same catalog, fetched again
PriceDecisions(t) ==
  IF program = "seller" THEN PriceEntries[t].out
  ELSE market_create_prices(watch_remnants, fetched[t]).out

\* C2: within one run of main() the price-decision list has an entry for
\* every fetched offer id whose code occurs in the feed; the stock
\* reconciliation run before it removes no id from what the price
\* reconciliation matches against.
C2_PricesCoverMatchedIds ==
  \A c \in 1..Len(PriceEntries) :
    LET e == PriceEntries[c]
    IN  e.out.ok =>
          \A id \in Elements(fetched[c]) :
            id \in Elements(Codes(watch_remnants)) =>
              \E i \in 1..Len(e.out.v) : PriceId(e.out.v[i]) = id

\* C5: in a run in which no collaborator call fails, every batch of the
\* stock-decision list and of the price-decision list of each target is
\* submitted exactly once, in batch order, within the batch bound, and when
\* the run ends the submitted stock (price) batches concatenated are the
\* stock-decision (price-decision) list.
C5_AllBatchesSubmitted ==
  pc = "done" =>
    \A t \in 1..Len(fetched) :
      /\ Flatten(Submitted("stocks", t)) = StockEntries[t].out.v
      /\ Submitted("stocks", t) = Divide(StockEntries[t].out.v, StockBound)
      /\ \A i \in 1..Len(Submitted("stocks", t)) :
           Len(Submitted("stocks", t)[i]) <= StockBound
      /\ PriceDecisions(t).ok =>
           Flatten(Submitted("prices", t)) = PriceDecisions(t).v

\* C6: once a collaborator call has failed, no further collaborator call is
\* made for that target (no retry, no later batch, no compensating call),
\* and when the failed call is a catalog page fetch no batch has been
\* submitted for that target.
C6_NoCallAfterFailure ==
  \A i \in 1..Len(calls) :
    ~calls[i].ok =>
      /\ \A j \in (i + 1)..Len(calls) : calls[j].target # calls[i].target
      /\ calls[i].kind = "list" =>
           \A j \in 1..Len(calls) :
             calls[j].kind \in {"stocks", "prices"} =>
               calls[j].target # calls[i].target

C6_Witness ==
  /\ pc = "stopped"
  /\ Len(calls) >= 2
  /\ LET last == calls[Len(calls)]
         prev == calls[Len(calls) - 1]
     IN  /\ last.kind = "stocks" /\ ~last.ok
         /\ prev.kind = "stocks" /\ prev.ok /\ prev.target = last.target

\* C7: get_offer_ids (both modules) requests the pages one at a time from
\* the empty cursor and stops exactly at the end-of-list page: it requests
\* no page after it, it is not still looping once that page has arrived,
\* and it returns the offer ids of all pages in page order.
C7_PaginationStopsAtEndOfList ==
  LET pages == served[target].pages
  IN  /\ Len(requests) <= Len(pages)
      /\ \A k \in 1..Len(requests) :
           requests[k] = (IF k = 1 THEN <<>> ELSE Token(k - 1))
      /\ pc = "get_offer_ids" => Len(requests) < Len(pages)
      /\ Len(fetched) >= target =>
           /\ fetched[target] = Flatten(pages)
           /\ Len(requests) = Len(pages)

-----------------------------------------------------------------------------
(* Properties of the stock-decision list *)

\* the stock count the quantity rules give a cell that parses
QuantityValue(cell) ==
  LET text == PyStr(cell)
  IN  IF text = <<">", "1", "0">> THEN 100
      ELSE IF text = <<"1">> THEN 0
      ELSE IntegerValue(text)

\* the position in the feed of the first record whose code is id
FirstIndex(remnants, id) ==
  CHOOSE i \in 1..Len(remnants) :
    /\ Codes(remnants)[i] = id
    /\ \A j \in 1..(i - 1) : Codes(remnants)[j] # id

\* C11: when several records of the feed carry the same code and the code is
\* a known offer id, the list create_stocks returns holds one stock decision
\* for that id, with the normalized quantity of the first of these records;
\* the later records add no decision and change nothing.
C11_FirstRecordWins ==
  \A c \in 1..Len(returns) :
    LET e == returns[c]
    IN  (e.fn \in StocksFns /\ e.out.ok) =>
          /\ Len(e.out.v) = Len(e.before)
          /\ \A id \in Elements(e.before) :
               id \in Elements(Codes(watch_remnants)) =>
                 /\ Occurrences(e.out.v, id, StockId) = 1
                 /\ \A i \in 1..Len(e.out.v) :
                      StockId(e.out.v[i]) = id =>
                        StockCount(e.out.v[i]) =
                          QuantityValue(
                            watch_remnants[FirstIndex(watch_remnants, id)].Quantity)

C11_Witness ==
  /\ returns # <<>>
  /\ returns[1].fn = "market.create_stocks"
  /\ returns[1].out.ok
  /\ returns[1].before = << <<"1">> >>
  /\ Codes(watch_remnants) = << <<"1">>, <<"1">> >>
  /\ PyStr(watch_remnants[1].Quantity) = <<"7">>
  /\ PyStr(watch_remnants[2].Quantity) = <<">", "1", "0">>
  /\ Len(returns[1].out.v) = 1
  /\ StockCount(returns[1].out.v[1]) = 7

\* the elements of l in order of first appearance
RECURSIVE FirstSeen(_)
FirstSeen(l) ==
  IF l = <<>> THEN <<>>
  ELSE LET front == FirstSeen(SubSeq(l, 1, Len(l) - 1))
           last  == l[Len(l)]
       IN  IF last \in Elements(front) THEN front ELSE Append(front, last)

\* the known ids the feed mentions, in feed order
MatchedIds(remnants, ids) ==
  SelectSeq(FirstSeen(Codes(remnants)), LAMBDA code : code \in Elements(ids))

\* the known ids the feed never mentions, in the order they were supplied
UnmatchedIds(remnants, ids) ==
  SelectSeq(ids, LAMBDA id : id \notin Elements(Codes(remnants)))

====
